---- MODULE Spec2Model ----
(***************************************************************************)
(* Model of the identity service of src/services/signus/mod.rs:            *)
(* SignusService with its registry of crypto backends and its five         *)
(* operations create_my_did, sign, verify, encrypt and decrypt.            *)
(*                                                                         *)
(* Representation.                                                         *)
(*   bytes   a sequence of numbers 0..255 (Vec<u8>)                        *)
(*   text    a sequence of character codes 0..58: codes 0..57 are the      *)
(*           58 characters of the Base58 alphabet in alphabet order,       *)
(*           code 58 is the character '0', which is not in the alphabet    *)
(*   Option  None is <<>>, Some(x) is <<x>>                                *)
(* The Base58 codec and the ed25519 backend are not part of mod.rs; they   *)
(* are modelled from their contracts: Base58 by its positional algorithm,  *)
(* the backend as an ideal scheme whose random draws are fresh values.     *)
(***************************************************************************)
EXTENDS Integers, Sequences, FiniteSets

VARIABLES
    crypto_types,   \* SignusService.crypto_types: the keys of the registry
    rng,            \* number of random values the backend has drawn so far
    my_dids,        \* the MyDid records create_my_did has returned to the caller
    did_infos,      \* the MyDidInfo each of them was created from
    boxes,          \* the (ciphertext, nonce) pairs encrypt has returned to the caller
    last            \* the last call: operation, arguments, result, collaborator calls

vars == <<crypto_types, rng, my_dids, did_infos, boxes, last>>

-----------------------------------------------------------------------------
(* Bounds of the model *)

\* random values the backend may draw in one behaviour
MaxRnd == 3

\* length in bytes of a verification key
VerKeyLen == 18

-----------------------------------------------------------------------------
(* Constants of the program *)

DEFAULT_CRYPTO_TYPE == "ed25519"

\* one byte short of the DID
DID_LEN_short == 16 - 1

\* ver_key[0..16]
DID_LEN == 16

BYTE_BASE == 256

B58_BASE == 58

-----------------------------------------------------------------------------
(* Option *)

None == <<>>

Some(x) == <<x>>

unwrap_or(opt, default) == IF opt = None THEN default ELSE opt[1]

-----------------------------------------------------------------------------
(* str::as_bytes: the UTF-8 bytes of a text; every character here is ASCII *)

ALPHABET ==
    << 49, 50, 51, 52, 53, 54, 55, 56, 57,
       65, 66, 67, 68, 69, 70, 71, 72, 74, 75, 76, 77, 78,
       80, 81, 82, 83, 84, 85, 86, 87, 88, 89, 90,
       97, 98, 99, 100, 101, 102, 103, 104, 105, 106, 107,
       109, 110, 111, 112, 113, 114, 115, 116, 117, 118, 119, 120, 121, 122 >>

CharCode(c) == IF c < B58_BASE THEN ALPHABET[c + 1] ELSE 48

as_bytes(text) == [i \in 1..Len(text) |-> CharCode(text[i])]

-----------------------------------------------------------------------------
(* Base58 *)

RECURSIVE LeadingZeros(_)
LeadingZeros(s) ==
    IF s = <<>> \/ Head(s) # 0 THEN 0 ELSE 1 + LeadingZeros(Tail(s))

Zeros(k) == [i \in 1..k |-> 0]

StripZeros(s) == SubSeq(s, LeadingZeros(s) + 1, Len(s))

\* long division of the big-endian number s, written in base from, by to:
\* <<the quotient without leading zeros, the remainder>>
RECURSIVE DivMod(_, _, _, _, _)
DivMod(s, from, to, q, carry) ==
    IF s = <<>> THEN <<q, carry>>
    ELSE LET acc == carry * from + Head(s)
         IN  DivMod(Tail(s), from, to,
                    IF q = <<>> /\ acc \div to = 0 THEN q ELSE Append(q, acc \div to),
                    acc % to)

\* the digits in base to of the number s written in base from
RECURSIVE ToBase(_, _, _)
ToBase(s, from, to) ==
    IF s = <<>> THEN <<>>
    ELSE LET qr == DivMod(s, from, to, <<>>, 0)
         IN  Append(ToBase(qr[1], from, to), qr[2])

\* the Base58 text of a byte string: a leading zero byte is written as the first
\* character of the alphabet, the rest is the number in base 58
to_base58(bytes) ==
    Zeros(LeadingZeros(bytes)) \o ToBase(StripZeros(bytes), BYTE_BASE, B58_BASE)

Base58_valid(text) == \A i \in 1..Len(text) : text[i] < B58_BASE

\* the byte string of a text of the alphabet
from_base58(text) ==
    Zeros(LeadingZeros(text)) \o ToBase(StripZeros(text), B58_BASE, BYTE_BASE)

-----------------------------------------------------------------------------
(* ED25519Signus, the backend registered under DEFAULT_CRYPTO_TYPE, as an  *)
(* ideal scheme.  r is the fresh random value of the draw.                 *)
(*   encryption keys   <<1, r>> public, <<2, r>> secret                    *)
(*   signing key       <<4, r>> when random, <<4, 0>> \o seed from a seed  *)
(*   verification key  VerKeyLen bytes: 3, then the signing key's bytes    *)
(*                     after its first, repeated                           *)
(*   signature         the signing key followed by the document            *)
(*   box               the two key numbers in order, the nonce, the        *)
(*                     document and the document reversed (the tag)        *)

Reverse(s) == [i \in 1..Len(s) |-> s[Len(s) + 1 - i]]

\* CryptoType::create_key_pair: <<public key, secret key>>, always random
ed25519_create_key_pair(r) == << <<1, r>>, <<2, r>> >>

VerKeyOf(sign_key) ==
    [i \in 1..VerKeyLen |->
        IF i = 1 THEN 3 ELSE sign_key[((i - 2) % (Len(sign_key) - 1)) + 2]]

\* CryptoType::create_key_pair_for_signature: <<verification key, signing key>>,
\* a function of the seed when there is one, random otherwise
ed25519_create_key_pair_for_signature(seed, r) ==
    LET sign_key == IF seed = None THEN <<4, r>> ELSE <<4, 0>> \o seed[1]
    IN  <<VerKeyOf(sign_key), sign_key>>

\* CryptoType::gen_nonce
ed25519_gen_nonce(r) == <<r>>

\* CryptoType::sign
ed25519_sign(private_key, doc) == private_key \o doc

\* CryptoType::verify
ed25519_verify(public_key, doc, signature) ==
    LET n == Len(signature) - Len(doc)
    IN  /\ n >= 2
        /\ signature[1] = 4
        /\ SubSeq(signature, n + 1, Len(signature)) = doc
        /\ VerKeyOf(SubSeq(signature, 1, n)) = public_key

\* the key two parties share: the same for (a's secret, b's public) and
\* (b's secret, a's public); <<>> when a key is not a key of the scheme
SharedKey(private_key, public_key) ==
    IF /\ Len(private_key) = 2 /\ private_key[1] = 2
       /\ Len(public_key) = 2 /\ public_key[1] = 1
    THEN IF private_key[2] <= public_key[2]
         THEN <<private_key[2], public_key[2]>>
         ELSE <<public_key[2], private_key[2]>>
    ELSE <<>>

\* CryptoType::encrypt
ed25519_encrypt(private_key, public_key, doc, nonce) ==
    SharedKey(private_key, public_key) \o nonce \o doc \o Reverse(doc)

\* CryptoType::decrypt: the document, or an authentication failure
ed25519_decrypt(private_key, public_key, doc, nonce) ==
    LET key  == SharedKey(private_key, public_key)
        h    == Len(key) + Len(nonce)
        body == SubSeq(doc, h + 1, Len(doc))
        half == Len(body) \div 2
    IN  IF /\ key # <<>>
           /\ Len(nonce) = 1
           /\ Len(doc) >= h
           /\ SubSeq(doc, 1, h) = key \o nonce
           /\ Len(body) = 2 * half
           /\ SubSeq(body, half + 1, Len(body)) = Reverse(SubSeq(body, 1, half))
        THEN [ok |-> TRUE, bytes |-> SubSeq(body, 1, half)]
        ELSE [ok |-> FALSE, bytes |-> <<>>]

-----------------------------------------------------------------------------
(* The texts and seeds the caller uses *)

\* "Dbf2fjCbsiq2kfns", the DID of the tests
GoodDid == <<12, 34, 38, 1, 38, 42, 11, 34, 50, 41, 48, 1, 43, 38, 45, 50>>

\* a text with a character that is not of the alphabet
BadText == <<12, 58, 3>>

Seed1 == <<12, 17>>

Seed2 == <<12, 18>>

Doc1 == <<50, 45, 58>>

Doc2 == <<50, 46>>

Docs == {Doc1, Doc2}

\* an encoded plaintext whose first byte is zero
Plain1 == <<0, 12, 3>>

TheirDidText == <<51, 54>>

-----------------------------------------------------------------------------
(* Base58::encode and Base58::decode.  The codec is computed once for the   *)
(* key material of the model and looked up afterwards; any other argument   *)
(* is computed on the spot.                                                 *)

\* the random values the backend can draw, and one it never draws
Draws == 1..MaxRnd \cup {200}

KnownSignKeys ==
    {<<4, r>> : r \in Draws} \cup {<<4, 0>> \o as_bytes(seed) : seed \in {Seed1, Seed2}}

KnownBytes ==
    KnownSignKeys
    \cup {VerKeyOf(k) : k \in KnownSignKeys}
    \cup {SubSeq(VerKeyOf(k), 1, DID_LEN) : k \in KnownSignKeys}
    \cup {<<1, r>> : r \in Draws} \cup {<<2, r>> : r \in Draws} \cup {<<r>> : r \in Draws}
    \cup {ed25519_sign(k, as_bytes(d)) : k \in KnownSignKeys, d \in Docs}
    \cup {from_base58(Plain1)}
    \cup {ed25519_encrypt(<<2, x>>, <<1, y>>, from_base58(Plain1), <<r>>)
            : x \in 1..MaxRnd, y \in 1..MaxRnd, r \in 1..MaxRnd}

EncodeTable == [bytes \in KnownBytes |-> to_base58(bytes)]

KnownTexts == {EncodeTable[bytes] : bytes \in KnownBytes} \cup {GoodDid, Plain1}

DecodeTable == [text \in KnownTexts |-> from_base58(text)]

\* Base58::encode: total
Base58_encode(bytes) ==
    IF bytes \in KnownBytes THEN EncodeTable[bytes] ELSE to_base58(bytes)

\* Base58::decode: fails on a character that is not of the alphabet
Base58_decode(text) ==
    IF Base58_valid(text)
    THEN [ok |-> TRUE,
          bytes |-> IF text \in KnownTexts THEN DecodeTable[text] ELSE from_base58(text)]
    ELSE [ok |-> FALSE, bytes |-> <<>>]

-----------------------------------------------------------------------------
(* Records of services/signus/types and results of the service *)

NoMyDid ==
    [did |-> <<>>, crypto_type |-> "", public_key |-> <<>>, secret_key |-> <<>>,
     ver_key |-> <<>>, sign_key |-> <<>>]

NoTheirDid == [did |-> <<>>, crypto_type |-> None, pk |-> None, verkey |-> <<>>]

NoDidInfo == [did |-> None, seed |-> None, crypto_type |-> None]

\* MyDid::new
MyDid_new(did, crypto_type, public_key, secret_key, ver_key, sign_key) ==
    [did |-> did, crypto_type |-> crypto_type, public_key |-> public_key,
     secret_key |-> secret_key, ver_key |-> ver_key, sign_key |-> sign_key]

\* Result<_, SignusError>: the fields the operation does not return keep their
\* empty values
NoResult ==
    [ok |-> FALSE, err |-> "", detail |-> "", my_did |-> NoMyDid,
     text |-> <<>>, nonce |-> <<>>, valid |-> FALSE]

Err(kind, detail) == [NoResult EXCEPT !.err = kind, !.detail = detail]

OkMyDid(my_did) == [NoResult EXCEPT !.ok = TRUE, !.my_did = my_did]

OkText(text) == [NoResult EXCEPT !.ok = TRUE, !.text = text]

OkBool(b) == [NoResult EXCEPT !.ok = TRUE, !.valid = b]

OkPair(text, nonce) == [NoResult EXCEPT !.ok = TRUE, !.text = text, !.nonce = nonce]

\* what a call leaves: its result, the collaborator calls it made, in order,
\* and the number of random values drawn after it
Return(res, log, r) == [res |-> res, log |-> log, rng |-> r]

-----------------------------------------------------------------------------
(* SignusService *)

\* a registry the default backend was not inserted into
SignusService_new_empty == {}

\* SignusService::new
SignusService_new == {DEFAULT_CRYPTO_TYPE}

\* create_my_did that takes the seed from the DID field of the request
create_my_did_seed_from_did(did_info, r) ==
    LET xtype == unwrap_or(did_info.crypto_type, DEFAULT_CRYPTO_TYPE)
    IN
    IF xtype \notin crypto_types
    THEN Return(Err("UnknownType", xtype), <<>>, r)
    ELSE
    LET seed     == IF did_info.did = None THEN None
                    ELSE Some(as_bytes(did_info.did[1]))
        pair     == ed25519_create_key_pair(r + 1)
        r1       == r + 1
        sigpair  == ed25519_create_key_pair_for_signature(seed, r1 + 1)
        r2       == IF seed = None THEN r1 + 1 ELSE r1
        ver_key  == sigpair[1]
        sign_key == sigpair[2]
        log1     == <<"create_key_pair", "create_key_pair_for_signature">>
        decoded  == IF did_info.did = None
                    THEN [ok |-> TRUE, bytes |-> SubSeq(ver_key, 1, DID_LEN)]
                    ELSE Base58_decode(did_info.did[1])
        log2     == IF did_info.did = None THEN log1 ELSE Append(log1, "decode")
    IN
    IF ~decoded.ok
    THEN Return(Err("DecodingError", ""), log2, r2)
    ELSE Return(OkMyDid(MyDid_new(Base58_encode(decoded.bytes),
                                  xtype,
                                  Base58_encode(pair[1]),
                                  Base58_encode(pair[2]),
                                  Base58_encode(ver_key),
                                  Base58_encode(sign_key))),
                log2 \o <<"encode", "encode", "encode", "encode", "encode", "encode">>,
                r2)

\* SignusService::create_my_did
create_my_did(did_info, r) ==
    LET xtype == unwrap_or(did_info.crypto_type, DEFAULT_CRYPTO_TYPE)
    IN
    IF xtype \notin crypto_types
    THEN Return(Err("UnknownType", xtype), <<>>, r)
    ELSE
    LET seed     == IF did_info.seed = None THEN None
                    ELSE Some(as_bytes(did_info.seed[1]))
        pair     == ed25519_create_key_pair(r + 1)
        r1       == r + 1
        sigpair  == ed25519_create_key_pair_for_signature(seed, r1 + 1)
        r2       == IF seed = None THEN r1 + 1 ELSE r1
        ver_key  == sigpair[1]
        sign_key == sigpair[2]
        log1     == <<"create_key_pair", "create_key_pair_for_signature">>
        decoded  == IF did_info.did = None
                    THEN [ok |-> TRUE, bytes |-> SubSeq(ver_key, 1, DID_LEN)]
                    ELSE Base58_decode(did_info.did[1])
        log2     == IF did_info.did = None THEN log1 ELSE Append(log1, "decode")
    IN
    IF ~decoded.ok
    THEN Return(Err("DecodingError", ""), log2, r2)
    ELSE Return(OkMyDid(MyDid_new(Base58_encode(decoded.bytes),
                                  xtype,
                                  Base58_encode(pair[1]),
                                  Base58_encode(pair[2]),
                                  Base58_encode(ver_key),
                                  Base58_encode(sign_key))),
                log2 \o <<"encode", "encode", "encode", "encode", "encode", "encode">>,
                r2)

\* sign with the sign key decoded before the algorithm is looked up
sign_decodes_first(my_did, doc) ==
    LET sign_key == Base58_decode(my_did.sign_key)
    IN
    IF ~sign_key.ok
    THEN Return(Err("DecodingError", ""), <<"decode">>, rng)
    ELSE
    IF my_did.crypto_type \notin crypto_types
    THEN Return(Err("UnknownType", my_did.crypto_type), <<"decode">>, rng)
    ELSE Return(OkText(Base58_encode(ed25519_sign(sign_key.bytes, as_bytes(doc)))),
                <<"decode", "sign", "encode">>, rng)

\* sign with the encryption secret key in place of the sign key
sign_with_secret_key(my_did, doc) ==
    IF my_did.crypto_type \notin crypto_types
    THEN Return(Err("UnknownType", my_did.crypto_type), <<>>, rng)
    ELSE
    LET sign_key == Base58_decode(my_did.secret_key)
    IN
    IF ~sign_key.ok
    THEN Return(Err("DecodingError", ""), <<"decode">>, rng)
    ELSE Return(OkText(Base58_encode(ed25519_sign(sign_key.bytes, as_bytes(doc)))),
                <<"decode", "sign", "encode">>, rng)

\* SignusService::sign
sign(my_did, doc) ==
    IF my_did.crypto_type \notin crypto_types
    THEN Return(Err("UnknownType", my_did.crypto_type), <<>>, rng)
    ELSE
    LET sign_key == Base58_decode(my_did.sign_key)
    IN
    IF ~sign_key.ok
    THEN Return(Err("DecodingError", ""), <<"decode">>, rng)
    ELSE Return(OkText(Base58_encode(ed25519_sign(sign_key.bytes, as_bytes(doc)))),
                <<"decode", "sign", "encode">>, rng)

\* verify with a signature that does not match reported as an error
verify_mismatch_is_error(their_did, doc, signature) ==
    LET xtype == unwrap_or(their_did.crypto_type, DEFAULT_CRYPTO_TYPE)
    IN
    IF xtype \notin crypto_types
    THEN Return(Err("UnknownType", xtype), <<>>, rng)
    ELSE
    LET verkey == Base58_decode(their_did.verkey)
    IN
    IF ~verkey.ok
    THEN Return(Err("DecodingError", ""), <<"decode">>, rng)
    ELSE
    LET sig == Base58_decode(signature)
    IN
    IF ~sig.ok
    THEN Return(Err("DecodingError", ""), <<"decode", "decode">>, rng)
    ELSE
    IF ed25519_verify(verkey.bytes, as_bytes(doc), sig.bytes)
    THEN Return(OkBool(TRUE), <<"decode", "decode", "verify">>, rng)
    ELSE Return(Err("InvalidStructure", "Invalid signature"),
                <<"decode", "decode", "verify">>, rng)

\* SignusService::verify
verify(their_did, doc, signature) ==
    LET xtype == unwrap_or(their_did.crypto_type, DEFAULT_CRYPTO_TYPE)
    IN
    IF xtype \notin crypto_types
    THEN Return(Err("UnknownType", xtype), <<>>, rng)
    ELSE
    LET verkey == Base58_decode(their_did.verkey)
    IN
    IF ~verkey.ok
    THEN Return(Err("DecodingError", ""), <<"decode">>, rng)
    ELSE
    LET sig == Base58_decode(signature)
    IN
    IF ~sig.ok
    THEN Return(Err("DecodingError", ""), <<"decode", "decode">>, rng)
    ELSE Return(OkBool(ed25519_verify(verkey.bytes, as_bytes(doc), sig.bytes)),
                <<"decode", "decode", "verify">>, rng)

\* encrypt that takes the document's UTF-8 bytes instead of decoding it
encrypt_raw_doc(my_did, their_did, doc, r) ==
    IF my_did.crypto_type \notin crypto_types
    THEN Return(Err("UnknownType", my_did.crypto_type), <<>>, r)
    ELSE
    IF their_did.pk = None
    THEN Return(Err("InvalidStructure", "Public key not found"), <<>>, r)
    ELSE
    LET nonce      == ed25519_gen_nonce(r + 1)
        r1         == r + 1
        secret_key == Base58_decode(my_did.secret_key)
    IN
    IF ~secret_key.ok
    THEN Return(Err("DecodingError", ""), <<"gen_nonce", "decode">>, r1)
    ELSE
    LET public_key == Base58_decode(their_did.pk[1])
    IN
    IF ~public_key.ok
    THEN Return(Err("DecodingError", ""), <<"gen_nonce", "decode", "decode">>, r1)
    ELSE Return(OkPair(Base58_encode(ed25519_encrypt(secret_key.bytes, public_key.bytes,
                                                     as_bytes(doc), nonce)),
                       Base58_encode(nonce)),
                <<"gen_nonce", "decode", "decode", "encrypt", "encode", "encode">>,
                r1)

\* encrypt that draws the nonce before it looks for the public key
encrypt_nonce_before_pk_check(my_did, their_did, doc, r) ==
    IF my_did.crypto_type \notin crypto_types
    THEN Return(Err("UnknownType", my_did.crypto_type), <<>>, r)
    ELSE
    LET nonce == ed25519_gen_nonce(r + 1)
        r1    == r + 1
    IN
    IF their_did.pk = None
    THEN Return(Err("InvalidStructure", "Public key not found"), <<"gen_nonce">>, r1)
    ELSE
    LET secret_key == Base58_decode(my_did.secret_key)
    IN
    IF ~secret_key.ok
    THEN Return(Err("DecodingError", ""), <<"gen_nonce", "decode">>, r1)
    ELSE
    LET public_key == Base58_decode(their_did.pk[1])
    IN
    IF ~public_key.ok
    THEN Return(Err("DecodingError", ""), <<"gen_nonce", "decode", "decode">>, r1)
    ELSE
    LET plain == Base58_decode(doc)
    IN
    IF ~plain.ok
    THEN Return(Err("DecodingError", ""),
                <<"gen_nonce", "decode", "decode", "decode">>, r1)
    ELSE Return(OkPair(Base58_encode(ed25519_encrypt(secret_key.bytes, public_key.bytes,
                                                     plain.bytes, nonce)),
                       Base58_encode(nonce)),
                <<"gen_nonce", "decode", "decode", "decode", "encrypt", "encode", "encode">>,
                r1)

\* SignusService::encrypt
encrypt(my_did, their_did, doc, r) ==
    IF my_did.crypto_type \notin crypto_types
    THEN Return(Err("UnknownType", my_did.crypto_type), <<>>, r)
    ELSE
    IF their_did.pk = None
    THEN Return(Err("InvalidStructure", "Public key not found"), <<>>, r)
    ELSE
    LET nonce      == ed25519_gen_nonce(r + 1)
        r1         == r + 1
        secret_key == Base58_decode(my_did.secret_key)
    IN
    IF ~secret_key.ok
    THEN Return(Err("DecodingError", ""), <<"gen_nonce", "decode">>, r1)
    ELSE
    LET public_key == Base58_decode(their_did.pk[1])
    IN
    IF ~public_key.ok
    THEN Return(Err("DecodingError", ""), <<"gen_nonce", "decode", "decode">>, r1)
    ELSE
    LET plain == Base58_decode(doc)
    IN
    IF ~plain.ok
    THEN Return(Err("DecodingError", ""),
                <<"gen_nonce", "decode", "decode", "decode">>, r1)
    ELSE Return(OkPair(Base58_encode(ed25519_encrypt(secret_key.bytes, public_key.bytes,
                                                     plain.bytes, nonce)),
                       Base58_encode(nonce)),
                <<"gen_nonce", "decode", "decode", "decode", "encrypt", "encode", "encode">>,
                r1)

\* decrypt that returns whatever the backend left when authentication fails
decrypt_ignores_failure(my_did, their_did, doc, nonce) ==
    IF my_did.crypto_type \notin crypto_types
    THEN Return(Err("UnknownType", my_did.crypto_type), <<>>, rng)
    ELSE
    IF their_did.pk = None
    THEN Return(Err("BackendError", "Public key not found"), <<>>, rng)
    ELSE
    LET secret_key == Base58_decode(my_did.secret_key)
    IN
    IF ~secret_key.ok
    THEN Return(Err("DecodingError", ""), <<"decode">>, rng)
    ELSE
    LET public_key == Base58_decode(their_did.pk[1])
    IN
    IF ~public_key.ok
    THEN Return(Err("DecodingError", ""), <<"decode", "decode">>, rng)
    ELSE
    LET cipher == Base58_decode(doc)
    IN
    IF ~cipher.ok
    THEN Return(Err("DecodingError", ""), <<"decode", "decode", "decode">>, rng)
    ELSE
    LET nonce_bytes == Base58_decode(nonce)
    IN
    IF ~nonce_bytes.ok
    THEN Return(Err("DecodingError", ""),
                <<"decode", "decode", "decode", "decode">>, rng)
    ELSE
    LET decrypted == ed25519_decrypt(secret_key.bytes, public_key.bytes,
                                     cipher.bytes, nonce_bytes.bytes)
    IN  Return(OkText(Base58_encode(decrypted.bytes)),
               <<"decode", "decode", "decode", "decode", "decrypt", "encode">>, rng)

\* SignusService::decrypt
decrypt(my_did, their_did, doc, nonce) ==
    IF my_did.crypto_type \notin crypto_types
    THEN Return(Err("UnknownType", my_did.crypto_type), <<>>, rng)
    ELSE
    IF their_did.pk = None
    THEN Return(Err("BackendError", "Public key not found"), <<>>, rng)
    ELSE
    LET secret_key == Base58_decode(my_did.secret_key)
    IN
    IF ~secret_key.ok
    THEN Return(Err("DecodingError", ""), <<"decode">>, rng)
    ELSE
    LET public_key == Base58_decode(their_did.pk[1])
    IN
    IF ~public_key.ok
    THEN Return(Err("DecodingError", ""), <<"decode", "decode">>, rng)
    ELSE
    LET cipher == Base58_decode(doc)
    IN
    IF ~cipher.ok
    THEN Return(Err("DecodingError", ""), <<"decode", "decode", "decode">>, rng)
    ELSE
    LET nonce_bytes == Base58_decode(nonce)
    IN
    IF ~nonce_bytes.ok
    THEN Return(Err("DecodingError", ""),
                <<"decode", "decode", "decode", "decode">>, rng)
    ELSE
    LET decrypted == ed25519_decrypt(secret_key.bytes, public_key.bytes,
                                     cipher.bytes, nonce_bytes.bytes)
    IN
    IF ~decrypted.ok
    THEN Return(Err("AuthenticationFailure", ""),
                <<"decode", "decode", "decode", "decode", "decrypt">>, rng)
    ELSE Return(OkText(Base58_encode(decrypted.bytes)),
                <<"decode", "decode", "decode", "decode", "decrypt", "encode">>, rng)

-----------------------------------------------------------------------------
(* The caller's inputs *)

\* a well-formed verification key of no identity of the caller
OtherVerKey == Base58_encode(VerKeyOf(<<4, 200>>))

\* a text with its last character replaced by the next one of the alphabet
Tamper(text) ==
    IF text = <<>> THEN <<1>>
    ELSE [text EXCEPT ![Len(text)] = (@ + 1) % B58_BASE]

DidInfos ==
    { [did |-> None,          seed |-> None,        crypto_type |-> None],
      [did |-> Some(GoodDid), seed |-> None,        crypto_type |-> None],
      [did |-> Some(GoodDid), seed |-> None,        crypto_type |-> Some("type")],
      [did |-> Some(GoodDid), seed |-> Some(Seed1), crypto_type |-> None],
      [did |-> None,          seed |-> Some(Seed2), crypto_type |-> Some(DEFAULT_CRYPTO_TYPE)],
      [did |-> Some(BadText), seed |-> Some(Seed1), crypto_type |-> None],
      [did |-> Some(BadText), seed |-> None,        crypto_type |-> Some("type")] }

Created == {my_dids[i] : i \in 1..Len(my_dids)}

\* a MyDid the caller rebuilt from stored data: as created, with an algorithm
\* the registry does not know, with undecodable private keys, or with both
Rebuilt(m) ==
    { [m EXCEPT !.crypto_type = "type"],
      [m EXCEPT !.sign_key = BadText, !.secret_key = BadText],
      [m EXCEPT !.crypto_type = "type", !.sign_key = BadText, !.secret_key = BadText] }

\* the identity created last
Latest == IF my_dids = <<>> THEN {} ELSE {my_dids[Len(my_dids)]}

\* the caller rebuilds the identity it created last
AllRebuilt == UNION {Rebuilt(m) : m \in Latest}

TheirDid_new(did, crypto_type, pk, verkey) ==
    [did |-> did, crypto_type |-> crypto_type, pk |-> pk, verkey |-> verkey]

\* the arguments of sign
SignCalls ==
    {<<m, d>> : m \in Created, d \in Docs} \cup {<<m, Doc1>> : m \in AllRebuilt}

\* the TheirDid records that carry the verification key of a created identity
\* and its algorithm or none, with and without a DID and a public key
OwnTheirDids ==
    UNION { { TheirDid_new(TheirDidText, None, None, m.ver_key),
              TheirDid_new(m.did, Some(m.crypto_type), Some(m.public_key), m.ver_key) }
            : m \in Created }

\* TheirDid records with an unknown algorithm, an undecodable or a foreign
\* verification key
OddTheirDids ==
    { TheirDid_new(m.did, Some("type"), None, m.ver_key) : m \in Created }
    \cup { TheirDid_new(TheirDidText, None, None, BadText),
           TheirDid_new(TheirDidText, Some("type"), None, BadText),
           TheirDid_new(TheirDidText, None, None, OtherVerKey) }

\* the signatures of Doc1 by the created identities
Signatures == {sign(m, Doc1).res.text : m \in Created}

\* the arguments of verify: every document and signature against every
\* created identity; a tampered and an undecodable signature against the
\* signer; a signature and an undecodable one against the other TheirDids
VerifyCalls ==
    {<<t, d, s>> : t \in OwnTheirDids, d \in Docs, s \in Signatures}
    \cup UNION { {<<t, Doc1, s>> : s \in {Tamper(sign(m, Doc1).res.text)
                                            : m \in {x \in Created : x.ver_key = t.verkey}}
                                         \cup {BadText}}
                 : t \in OwnTheirDids }
    \cup {<<t, Doc1, s>> : t \in OddTheirDids,
                           s \in {sign(m, Doc1).res.text : m \in Latest} \cup {BadText}}

\* the TheirDid records that carry the public key of a created identity
OwnBoxTheirDids ==
    UNION { { TheirDid_new(m.did, None, Some(m.public_key), m.ver_key),
              TheirDid_new(m.did, Some("type"), Some(m.public_key), m.ver_key) }
            : m \in Created }

\* TheirDid records without a public key or with an undecodable one
OddBoxTheirDids ==
    { TheirDid_new(TheirDidText, None, None, <<>>),
      TheirDid_new(TheirDidText, Some("type"), None, <<>>),
      TheirDid_new(TheirDidText, None, Some(BadText), <<>>) }

\* the arguments of encrypt
EncryptCalls ==
    {<<m, t, Plain1>> : m \in Created, t \in OwnBoxTheirDids}
    \cup {<<m, t, d>> : m \in Created, t \in OddBoxTheirDids, d \in {Plain1, BadText}}
    \cup {<<m, TheirDid_new(m.did, None, Some(m.public_key), m.ver_key), BadText>>
            : m \in Created}
    \cup {<<m, t, d>> : m \in AllRebuilt,
                        t \in OddBoxTheirDids
                              \cup {TheirDid_new(x.did, None, Some(x.public_key), x.ver_key)
                                      : x \in Latest},
                        d \in {Plain1, BadText}}

Stored == {boxes[i] : i \in 1..Len(boxes)}

\* the (ciphertext, nonce) pairs encrypt returned
Returned == {<<b.text, b.nonce>> : b \in Stored}

\* the same with a tampered or undecodable part, or with the nonce of another box
Altered(b) ==
    { <<Tamper(b.text), b.nonce>>, <<b.text, Tamper(b.nonce)>>,
      <<BadText, b.nonce>>, <<b.text, BadText>> }
    \cup { <<b.text, c.nonce>> : c \in Stored }

\* the arguments of decrypt
DecryptCalls ==
    {<<m, t, cn>> : m \in Created, t \in OwnBoxTheirDids, cn \in Returned}
    \cup UNION { {<<m, TheirDid_new(m.did, None, Some(b.my_did.public_key), m.ver_key), cn>>
                    : m \in {x \in Created : x.public_key = b.pk}, cn \in Altered(b)}
                 : b \in Stored }
    \cup {<<m, t, cn>> : m \in Created, t \in OddBoxTheirDids, cn \in Returned}
    \cup {<<m, t, cn>> : m \in AllRebuilt,
                         t \in OddBoxTheirDids
                               \cup {TheirDid_new(x.did, None, Some(x.public_key), x.ver_key)
                                       : x \in Latest},
                         cn \in Returned \cup {<<BadText, BadText>>}}

-----------------------------------------------------------------------------
(* The calls.  The caller makes one call at a time: it calls when it holds  *)
(* no result, and takes the result before the next call.                    *)

Idle ==
    [op |-> "idle", did_info |-> NoDidInfo, my_did |-> NoMyDid, their_did |-> NoTheirDid,
     doc |-> <<>>, signature |-> <<>>, nonce |-> <<>>, res |-> NoResult, log |-> <<>>]

Init ==
    /\ crypto_types = SignusService_new
    /\ rng = 0
    /\ my_dids = <<>>
    /\ did_infos = <<>>
    /\ boxes = <<>>
    /\ last = Idle

CreateMyDid ==
    /\ last.op = "idle"
    /\ \E did_info \in DidInfos :
        LET ret == create_my_did(did_info, rng)
        IN  /\ ret.rng <= MaxRnd
            /\ rng' = ret.rng
            /\ my_dids' = IF ret.res.ok THEN Append(my_dids, ret.res.my_did) ELSE my_dids
            /\ did_infos' = IF ret.res.ok THEN Append(did_infos, did_info) ELSE did_infos
            /\ last' = [Idle EXCEPT !.op = "create_my_did", !.did_info = did_info,
                                    !.res = ret.res, !.log = ret.log]
            /\ UNCHANGED <<crypto_types, boxes>>

Sign ==
    /\ last.op = "idle"
    /\ \E call \in SignCalls :
        LET ret == sign(call[1], call[2])
        IN  /\ last' = [Idle EXCEPT !.op = "sign", !.my_did = call[1], !.doc = call[2],
                                    !.res = ret.res, !.log = ret.log]
            /\ UNCHANGED <<crypto_types, rng, my_dids, did_infos, boxes>>

Verify ==
    /\ last.op = "idle"
    /\ \E call \in VerifyCalls :
        LET ret == verify(call[1], call[2], call[3])
        IN  /\ last' = [Idle EXCEPT !.op = "verify", !.their_did = call[1], !.doc = call[2],
                                    !.signature = call[3],
                                    !.res = ret.res, !.log = ret.log]
            /\ UNCHANGED <<crypto_types, rng, my_dids, did_infos, boxes>>

Encrypt ==
    /\ last.op = "idle"
    /\ \E call \in EncryptCalls :
        LET my_did    == call[1]
            their_did == call[2]
            doc       == call[3]
            ret       == encrypt(my_did, their_did, doc, rng)
        IN  /\ ret.rng <= MaxRnd
            /\ rng' = ret.rng
            /\ boxes' = IF ret.res.ok
                        THEN Append(boxes, [my_did |-> my_did, pk |-> their_did.pk[1],
                                            doc |-> doc, text |-> ret.res.text,
                                            nonce |-> ret.res.nonce])
                        ELSE boxes
            /\ last' = [Idle EXCEPT !.op = "encrypt", !.my_did = my_did,
                                    !.their_did = their_did, !.doc = doc,
                                    !.res = ret.res, !.log = ret.log]
            /\ UNCHANGED <<crypto_types, my_dids, did_infos>>

Decrypt ==
    /\ last.op = "idle"
    /\ \E call \in DecryptCalls :
        LET my_did    == call[1]
            their_did == call[2]
            cn        == call[3]
            ret       == decrypt(my_did, their_did, cn[1], cn[2])
        IN  /\ last' = [Idle EXCEPT !.op = "decrypt", !.my_did = my_did,
                                    !.their_did = their_did, !.doc = cn[1], !.nonce = cn[2],
                                    !.res = ret.res, !.log = ret.log]
            /\ UNCHANGED <<crypto_types, rng, my_dids, did_infos, boxes>>

\* the caller takes the result
TakeResult ==
    /\ last.op # "idle"
    /\ last' = Idle
    /\ UNCHANGED <<crypto_types, rng, my_dids, did_infos, boxes>>

Next == CreateMyDid \/ Sign \/ Verify \/ Encrypt \/ Decrypt \/ TakeResult

Spec == Init /\ [][Next]_vars

-----------------------------------------------------------------------------
(* The claims *)

\* the algorithm identifier the last call resolved
EffectiveType ==
    CASE last.op = "create_my_did" ->
            unwrap_or(last.did_info.crypto_type, DEFAULT_CRYPTO_TYPE)
      [] last.op = "verify" ->
            unwrap_or(last.their_did.crypto_type, DEFAULT_CRYPTO_TYPE)
      [] OTHER -> last.my_did.crypto_type

\* C1: a call of any of the five operations whose algorithm identifier is not a
\* key of the registry returns UnknownType with that identifier, and has made
\* no collaborator call (no decode, no key or nonce generation) and not
\* looked at the public key, whatever its other arguments are.
C1_UnknownTypeFirst ==
    (last.op # "idle" /\ EffectiveType \notin crypto_types)
        => /\ ~last.res.ok
           /\ last.res.err = "UnknownType"
           /\ last.res.detail = EffectiveType
           /\ last.log = <<>>

\* encrypt with an unknown algorithm, undecodable keys and document and no
\* public key
C1_Witness ==
    /\ last.op = "encrypt"
    /\ last.my_did.crypto_type = "type"
    /\ last.my_did.secret_key = BadText
    /\ last.their_did.pk = None
    /\ last.doc = BadText
    /\ last.res.err = "UnknownType"

\* C2: encrypt and decrypt return Ok only when the TheirDid's effective
\* algorithm identifier is a key of the registry and is the MyDid's.
C2_TheirTypeChecked ==
    (last.op \in {"encrypt", "decrypt"} /\ last.res.ok)
        => LET their_type == unwrap_or(last.their_did.crypto_type, DEFAULT_CRYPTO_TYPE)
           IN  /\ their_type \in crypto_types
               /\ their_type = last.my_did.crypto_type

\* the signature is the one sign returns for the document and the identity
\* whose verification key the TheirDid carries
Matches(their_did, doc, signature) ==
    \E m \in Created :
        /\ their_did.verkey = m.ver_key
        /\ signature = sign(m, doc).res.text

\* C3: verify fails exactly when the algorithm is unknown or the verification
\* key or the signature is undecodable; otherwise it returns Ok of the
\* backend's boolean, and Ok(false) for a signature that does not match.
C3_VerifyErrors ==
    last.op = "verify"
        => LET unknown     == EffectiveType \notin crypto_types
               undecodable == \/ ~Base58_valid(last.their_did.verkey)
                              \/ ~Base58_valid(last.signature)
           IN  /\ last.res.ok <=> ~(unknown \/ undecodable)
               /\ ~last.res.ok => last.res.err \in {"UnknownType", "DecodingError"}
               /\ last.res.ok =>
                    last.res.valid =
                        ed25519_verify(from_base58(last.their_did.verkey),
                                       as_bytes(last.doc),
                                       from_base58(last.signature))
               /\ (~unknown /\ ~undecodable
                   /\ ~Matches(last.their_did, last.doc, last.signature))
                    => (last.res.ok /\ ~last.res.valid)

\* verify of a genuine signature against the well-formed verification key of
\* another identity returns Ok(false)
C3_Witness ==
    /\ last.op = "verify"
    /\ last.their_did.verkey = OtherVerKey
    /\ last.signature \in Signatures
    /\ last.res.ok
    /\ ~last.res.valid

\* C4: sign succeeds for every created MyDid and every document, and verify
\* of the signature against a TheirDid with the MyDid's verification key and
\* its algorithm or none returns Ok(true), whatever the TheirDid's DID and
\* public key are.
C4_SignVerifyRoundTrip ==
    /\ (last.op = "sign" /\ last.my_did \in Created)
            => (last.res.ok /\ last.res.text # <<>>)
    /\ last.op = "verify"
            => \A m \in Created :
                    ( /\ last.their_did.verkey = m.ver_key
                      /\ last.their_did.crypto_type \in {None, Some(m.crypto_type)}
                      /\ last.signature = sign(m, last.doc).res.text )
                        => (last.res.ok /\ last.res.valid)

\* verify returned Ok(true) for a TheirDid without algorithm and public key
\* that carries the verification key of an identity created from a seed
C4_Witness ==
    /\ last.op = "verify"
    /\ last.res.ok
    /\ last.res.valid
    /\ last.their_did.crypto_type = None
    /\ last.their_did.pk = None
    /\ \E i \in 1..Len(my_dids) :
            /\ did_infos[i].seed # None
            /\ my_dids[i].ver_key = last.their_did.verkey

\* encrypt returned the box b to its sender for the recipient whose public
\* key is b.pk; the last call passes it to decrypt with the keys of the
\* recipient and the sender, or of the sender and the recipient
ByRecipient(b) ==
    /\ last.doc = b.text
    /\ last.nonce = b.nonce
    /\ last.their_did.pk = Some(b.my_did.public_key)
    /\ \E m \in Created : m.public_key = b.pk /\ last.my_did.secret_key = m.secret_key

BySender(b) ==
    /\ last.doc = b.text
    /\ last.nonce = b.nonce
    /\ last.their_did.pk = Some(b.pk)
    /\ last.my_did.secret_key = b.my_did.secret_key

\* C5: decrypt, by the identity B a box was encrypted for, of the ciphertext and
\* nonce encrypt returned to the identity A, with A's public key, returns Ok of
\* the encoded plaintext that was passed to encrypt.
C5_EncryptDecryptRoundTrip ==
    last.op = "decrypt"
        => \A b \in Stored :
              ( /\ last.my_did \in Created
                /\ last.my_did.public_key = b.pk
                /\ last.my_did.crypto_type = b.my_did.crypto_type
                /\ last.their_did.pk = Some(b.my_did.public_key)
                /\ last.doc = b.text
                /\ last.nonce = b.nonce )
                  => (last.res.ok /\ last.res.text = b.doc)

\* a recipient other than the sender decrypted the plaintext with a leading
\* zero byte
C5_Witness ==
    /\ last.op = "decrypt"
    /\ last.res.ok
    /\ last.res.text = Plain1
    /\ \E b \in Stored :
            /\ ByRecipient(b)
            /\ b.my_did.public_key # last.my_did.public_key

\* C6: without an explicit DID create_my_did returns the encoding of the first
\* 16 bytes of the verification key it returns; with a decodable explicit DID
\* it returns the encoding of the decoded DID, which is the DID supplied; with
\* an undecodable one it returns the decoding error and no MyDid.
C6_DidDerivation ==
    (last.op = "create_my_did" /\ EffectiveType \in crypto_types)
        => IF last.did_info.did = None
           THEN /\ last.res.ok
                /\ LET ver_key == from_base58(last.res.my_did.ver_key)
                   IN  /\ Len(ver_key) >= 16
                       /\ last.res.my_did.did = to_base58(SubSeq(ver_key, 1, 16))
                       /\ Len(from_base58(last.res.my_did.did)) = 16
           ELSE IF Base58_valid(last.did_info.did[1])
           THEN /\ last.res.ok
                /\ last.res.my_did.did = to_base58(from_base58(last.did_info.did[1]))
                /\ last.res.my_did.did = last.did_info.did[1]
           ELSE /\ ~last.res.ok
                /\ last.res.err = "DecodingError"
                /\ last.res.my_did = NoMyDid

\* create_my_did derived a DID that is shorter than the verification key
C6_Witness ==
    /\ last.op = "create_my_did"
    /\ last.did_info.did = None
    /\ last.res.ok
    /\ Len(from_base58(last.res.my_did.did)) = 16
    /\ Len(from_base58(last.res.my_did.ver_key)) > 16

\* C7: two identities created from the same seed have the same signing key
\* pair; two created from different seeds, or one of them from none, have
\* different ones; and any two have different encryption key pairs.
C7_SeedDeterminism ==
    \A i, j \in 1..Len(my_dids) :
        i < j =>
            LET a == my_dids[i]
                b == my_dids[j]
                same_seed == /\ did_infos[i].seed # None
                             /\ did_infos[i].seed = did_infos[j].seed
                             /\ a.crypto_type = b.crypto_type
            IN  /\ same_seed => (a.ver_key = b.ver_key /\ a.sign_key = b.sign_key)
                /\ ~same_seed => (a.ver_key # b.ver_key /\ a.sign_key # b.sign_key)
                /\ a.public_key # b.public_key
                /\ a.secret_key # b.secret_key

\* two identities were created from the same seed, with another call between
C7_Witness ==
    \E i, j \in 1..Len(my_dids) :
        /\ i + 1 < j
        /\ did_infos[i].seed # None
        /\ did_infos[i].seed = did_infos[j].seed
        /\ my_dids[i].ver_key = my_dids[j].ver_key

\* C8: with a known algorithm and a TheirDid without public key, encrypt
\* returns InvalidStructure and decrypt returns BackendError, before any
\* collaborator call, whatever the keys, the document and the nonce are.
C8_MissingPublicKey ==
    ( /\ last.op \in {"encrypt", "decrypt"}
      /\ last.my_did.crypto_type \in crypto_types
      /\ last.their_did.pk = None )
        => /\ ~last.res.ok
           /\ last.res.err =
                (IF last.op = "encrypt" THEN "InvalidStructure" ELSE "BackendError")
           /\ last.res.detail = "Public key not found"
           /\ last.log = <<>>

\* encrypt without public key, with an undecodable secret key and document
C8_Witness ==
    /\ last.op = "encrypt"
    /\ last.my_did.crypto_type \in crypto_types
    /\ last.my_did.secret_key = BadText
    /\ last.doc = BadText
    /\ last.their_did.pk = None
    /\ last.res.err = "InvalidStructure"

\* C9: decrypt returns Ok only of what the backend's authenticated decryption
\* returns, and only for a ciphertext and nonce that encrypt returned, under
\* the keys of that box; with decodable arguments anything else (the keys of a
\* third identity, another nonce, a modified ciphertext) is the
\* authentication failure.
C9_AuthenticationFailure ==
    last.op = "decrypt"
        => LET genuine   == \E b \in Stored : ByRecipient(b) \/ BySender(b)
               decodable == /\ last.their_did.pk # None
                            /\ Base58_valid(last.my_did.secret_key)
                            /\ Base58_valid(last.their_did.pk[1])
                            /\ Base58_valid(last.doc)
                            /\ Base58_valid(last.nonce)
           IN  /\ last.res.ok =>
                    /\ genuine
                    /\ decodable
                    /\ LET opened == ed25519_decrypt(from_base58(last.my_did.secret_key),
                                                     from_base58(last.their_did.pk[1]),
                                                     from_base58(last.doc),
                                                     from_base58(last.nonce))
                       IN  opened.ok /\ last.res.text = to_base58(opened.bytes)
               /\ ( /\ last.my_did.crypto_type \in crypto_types
                    /\ decodable
                    /\ ~genuine )
                    => (~last.res.ok /\ last.res.err = "AuthenticationFailure")

\* a created identity that is neither the sender nor the recipient of a box
\* passed it to decrypt with the sender's public key
C9_Witness ==
    /\ last.op = "decrypt"
    /\ last.res.err = "AuthenticationFailure"
    /\ last.my_did \in Created
    /\ \E b \in Stored :
            /\ last.doc = b.text
            /\ last.nonce = b.nonce
            /\ last.their_did.pk = Some(b.my_did.public_key)
            /\ last.my_did.public_key \notin {b.pk, b.my_did.public_key}

====
